---- MODULE Spec2Model ----
(***************************************************************************)
(* Level generation engine of sourcecode_to_game, as designed in           *)
(* docs/level_generation_algorithm.md: a call graph is ranked into core    *)
(* chains, each chain is scored for difficulty, challenge types are        *)
(* selected and one level per chain is assembled.                          *)
(*                                                                         *)
(* Numbers that are floats in the source are kept exact as integers        *)
(* scaled by Scale (importance) or by DScale (difficulty); both scales are *)
(* multiples of every chain length 1..5, so every mean is exact.           *)
(***************************************************************************)
EXTENDS Integers, Sequences, FiniteSets, TLC

VARIABLES
    call_graph,     \* the immutable CallGraph snapshot of the run
    max_levels,     \* the max_levels argument of generate_levels
    pc,             \* position inside the operation of the specification
    core_chains,    \* generate_levels: result of identify_core_chains
    levels,         \* generate_levels: the list being assembled / returned
    outcome,        \* "running" | "returned" | "raised"
    run,            \* 1 during the first call of generate_levels, 2 during a second
    first_levels,   \* what the first of two calls on the same graph returned
    stack,          \* chain enumeration: paths still to expand
    pending,        \* chain enumeration: entry points not yet started
    chains,         \* identify_core_chains: the (score, chain) list
    sel,            \* inputs and result of a single pure-function call
    ui              \* frontend: state of the mounted page or of the API client

vars == <<call_graph, max_levels, pc, core_chains, levels, outcome,
          run, first_levels, stack, pending, chains, sel, ui>>

----------------------------------------------------------------------------
(* Bounds of the model *)

\* largest max_levels argument tried
MaxMaxLevels == 2

\* the invalid max_levels arguments tried are 0, -1, ..., -MaxShortfall
MaxShortfall == 2

\* the enumeration refuses to grow a path beyond this many nodes; it is
\* larger than max_depth, so the guard never binds on the modelled code
PathCap == 7

(* Program constants *)

MaxDepth == 5
MaxChains == 10

Scale == 60 * 10000
DScale == 3 * 4 * 5

----------------------------------------------------------------------------
(* Node ids.  Ids are strings in the source; NodeSeq fixes their           *)
(* lexicographic order.                                                    *)

NodeSeq == <<"a", "b", "c", "d", "e", "f", "g">>
Nodes == {NodeSeq[i] : i \in 1..Len(NodeSeq)}
SmallNodes == {"a", "b", "c"}

IdRank(id) == CHOOSE i \in 1..Len(NodeSeq) : NodeSeq[i] = id

\* the elements of a set of node ids as a list in ascending id order
RECURSIVE SortedIds(_)
SortedIds(S) ==
    IF S = {} THEN <<>>
    ELSE LET m == CHOOSE x \in S : \A y \in S : IdRank(x) <= IdRank(y)
         IN <<m>> \o SortedIds(S \ {m})

Min(x, y) == IF x <= y THEN x ELSE y
Max(x, y) == IF x >= y THEN x ELSE y

RECURSIVE SumSeq(_)
SumSeq(s) == IF s = <<>> THEN 0 ELSE Head(s) + SumSeq(Tail(s))

RECURSIVE Pow(_, _)
Pow(b, e) == IF e <= 0 THEN 1 ELSE b * Pow(b, e - 1)

SeqElems(s) == {s[i] : i \in 1..Len(s)}

\* Python's seq[:n]
PySlice(s, n) ==
    IF n >= 0 THEN SubSeq(s, 1, Min(n, Len(s)))
    ELSE SubSeq(s, 1, Max(0, Len(s) + n))

----------------------------------------------------------------------------
(* Difficulty and ChallengeType enums *)

TUTORIAL == 1
BASIC == 2
INTERMEDIATE == 3
ADVANCED == 4
EXPERT == 5
Difficulty == TUTORIAL..EXPERT

ChallengeType == {"MULTIPLE_CHOICE", "CODE_TRACING", "FILL_BLANK",
                  "CODE_COMPLETION", "DEBUGGING", "ARCHITECTURE"}

----------------------------------------------------------------------------
(* CodeNode attributes other than the call relation.  docstring and        *)
(* return_type are "" when absent (None).                                  *)

PlainNode ==
    [complexity |-> 1, decorators |-> <<>>, is_async |-> FALSE,
     is_generator |-> FALSE, docstring |-> "", depends_on |-> 0,
     return_type |-> "", parameters |-> 0]

RichNode ==
    [complexity |-> 12, decorators |-> <<"route">>, is_async |-> FALSE,
     is_generator |-> FALSE, docstring |-> "Handle a request", depends_on |-> 2,
     return_type |-> "str", parameters |-> 1]

HeavyNode ==
    [complexity |-> 20, decorators |-> <<"cache", "retry">>, is_async |-> TRUE,
     is_generator |-> TRUE, docstring |-> "", depends_on |-> 7,
     return_type |-> "Response", parameters |-> 2]

Profiles == {PlainNode, RichNode, HeavyNode}

\* the profiles tried for each small node: every profile occurs, and chains
\* of every difficulty tier can be built from them
ProfileChoices ==
    [n \in SmallNodes |->
        CASE n = "a" -> {PlainNode, RichNode}
          [] n = "b" -> {RichNode, HeavyNode}
          [] OTHER -> {PlainNode, HeavyNode}]

\* a CodeNode: id, name, calls, called_by and position added to a profile
CodeNode(id, profile, calls, called_by) ==
    [id |-> id, name |-> id, calls |-> calls, called_by |-> called_by,
     line_start |-> 10 * IdRank(id), line_end |-> 10 * IdRank(id) + 5,
     complexity |-> profile.complexity, decorators |-> profile.decorators,
     is_async |-> profile.is_async, is_generator |-> profile.is_generator,
     docstring |-> profile.docstring, depends_on |-> profile.depends_on,
     return_type |-> profile.return_type, parameters |-> profile.parameters]

\* a CallGraph over node set N; called_by is the inverse of calls
CallGraph(N, callsOf, profileOf, entries) ==
    [nodes |-> [n \in N |->
                  CodeNode(n, profileOf[n], callsOf[n],
                           {m \in N : n \in callsOf[m]})],
     entry_points |-> entries]

\* every graph over the three small nodes without self calls
SmallGraphs ==
    {CallGraph(SmallNodes, c, p, e) :
        c \in {f \in [SmallNodes -> SUBSET SmallNodes] :
                 \A n \in SmallNodes : n \notin f[n]},
        p \in {q \in [SmallNodes -> Profiles] :
                 \A n \in SmallNodes : q[n] \in ProfileChoices[n]},
        e \in SUBSET SmallNodes}

\* every call relation over the three small nodes, self calls included,
\* on plain nodes
RecursiveGraphs ==
    {CallGraph(SmallNodes, c, [n \in SmallNodes |-> PlainNode], e) :
        c \in [SmallNodes -> SUBSET SmallNodes],
        e \in SUBSET SmallNodes}

\* a -> b -> ... -> g: a call path longer than max_depth
LineCalls ==
    [n \in Nodes |->
        IF IdRank(n) < Len(NodeSeq) THEN {NodeSeq[IdRank(n) + 1]} ELSE {}]

\* the line closed into a ring by g -> a, with a shortcut a -> d
RingCalls ==
    [n \in Nodes |->
        IF n = "a" THEN {"b", "d"}
        ELSE IF IdRank(n) < Len(NodeSeq) THEN {NodeSeq[IdRank(n) + 1]} ELSE {"a"}]

DeepGraphs ==
    {CallGraph(Nodes, c, [n \in Nodes |-> PlainNode], e) :
        c \in {LineCalls, RingCalls},
        e \in {{"a"}, {"a", "e"}, {"a", "f"}, {"c", "g"}}}

----------------------------------------------------------------------------
(* CallGraph.get_call_chain(entry_id, max_depth): the simple call paths    *)
(* from one node.  A path is extended by every callee of its last node     *)
(* that is not already on the path, callees taken in ascending id order;   *)
(* it is emitted when nothing extends it or it holds max_depth nodes.      *)

Last(path) == path[Len(path)]

\* the naive walk: every callee extends the path, whatever is on it
ExtensionsUnchecked(path, graph, max_depth) ==
    SortedIds(graph.nodes[Last(path)].calls)

\* no path-local visited check, the depth limit alone stops the walk
ExtensionsRevisiting(path, graph, max_depth) ==
    IF Len(path) >= max_depth THEN <<>>
    ELSE SortedIds(graph.nodes[Last(path)].calls)

\* the walk follows called_by instead of calls
ExtensionsAlongCallers(path, graph, max_depth) ==
    IF Len(path) >= max_depth THEN <<>>
    ELSE SelectSeq(SortedIds(graph.nodes[Last(path)].called_by),
                   LAMBDA n : n \notin SeqElems(path))

\* the depth test is off by one: a path of max_depth nodes is still extended
ExtensionsOneTooDeep(path, graph, max_depth) ==
    IF Len(path) > max_depth THEN <<>>
    ELSE SelectSeq(SortedIds(graph.nodes[Last(path)].calls),
                   LAMBDA n : n \notin SeqElems(path))

Extensions(path, graph, max_depth) ==
    IF Len(path) >= max_depth THEN <<>>
    ELSE SelectSeq(SortedIds(graph.nodes[Last(path)].calls),
                   LAMBDA n : n \notin SeqElems(path))

RECURSIVE PathsFrom(_, _, _)
PathsFrom(path, graph, max_depth) ==
    LET ext == Extensions(path, graph, max_depth)
        F[k \in 0..Len(ext)] ==
            IF k = 0 THEN <<>>
            ELSE F[k - 1] \o PathsFrom(Append(path, ext[k]), graph, max_depth)
    IN IF ext = <<>> THEN <<path>> ELSE F[Len(ext)]

get_call_chain(graph, entry_id, max_depth) ==
    PathsFrom(<<entry_id>>, graph, max_depth)

----------------------------------------------------------------------------
(* Phase 1: core chain identification *)

\* 40 * 0.7^i, scaled by Scale
Proximity(i) ==
    IF i <= 4 THEN 40 * Pow(7, i) * Pow(10, 4 - i) * 60
    ELSE (40 * Pow(7, i) * 60) \div Pow(10, i - 4)

\* the four amounts calculate_chain_importance adds to the score
ImportanceParts(chain, graph) ==
    LET n == Len(chain)
        proximity == SumSeq([i \in 1..n |-> Proximity(i - 1)])
        sum_called_by ==
            SumSeq([i \in 1..n |-> Cardinality(graph.nodes[chain[i]].called_by)])
        frequency_score == Min(30 * Scale, (sum_called_by * 5 * Scale) \div n)
        sum_complexity == SumSeq([i \in 1..n |-> graph.nodes[chain[i]].complexity])
        complexity_score == Min(20 * Scale, (sum_complexity * Scale) \div n)
        documented_nodes ==
            Cardinality({i \in 1..n : graph.nodes[chain[i]].docstring # ""})
        doc_score == (documented_nodes * 10 * Scale) \div n
    IN [proximity |-> proximity, frequency |-> frequency_score,
        complexity |-> complexity_score, documentation |-> doc_score]

calculate_chain_importance(chain, graph) ==
    LET part == ImportanceParts(chain, graph)
    IN part.proximity + part.frequency + part.complexity + part.documentation

\* reverse=True left out: ascending by score
SortByScoreAsc(items) ==
    LET n == Len(items)
        place(i) == 1 + Cardinality({j \in 1..n : items[j][1] < items[i][1]})
                      + Cardinality({j \in 1..(i - 1) : items[j][1] = items[i][1]})
    IN [r \in 1..n |-> items[CHOOSE i \in 1..n : place(i) = r]]

\* list.sort(reverse=True, key=score): stable, descending by score
SortByScoreDesc(items) ==
    LET n == Len(items)
        \* the place of item i: after every item with a larger score and
        \* after the earlier items with the same score
        place(i) == 1 + Cardinality({j \in 1..n : items[j][1] > items[i][1]})
                      + Cardinality({j \in 1..(i - 1) : items[j][1] = items[i][1]})
    IN [r \in 1..n |-> items[CHOOSE i \in 1..n : place(i) = r]]

\* an empty entry_points set falls back to every node of the graph
EntryListOrAllNodes(graph) ==
    IF graph.entry_points = {} THEN SortedIds(DOMAIN graph.nodes)
    ELSE SortedIds(graph.entry_points)

\* `for entry_id in call_graph.entry_points`, in ascending id order
EntryList(graph) == SortedIds(graph.entry_points)

Scored(entry_chains, graph) ==
    [j \in 1..Len(entry_chains) |->
        <<calculate_chain_importance(entry_chains[j], graph), entry_chains[j]>>]

\* entry_chains is not reset between entry points: the chains of the earlier
\* entry points are scored and appended again
ScoredChainsAccumulating(graph) ==
    LET entries == EntryList(graph)
        E[k \in 0..Len(entries)] ==
            IF k = 0 THEN <<>>
            ELSE E[k - 1] \o get_call_chain(graph, entries[k], MaxDepth)
        F[k \in 0..Len(entries)] ==
            IF k = 0 THEN <<>> ELSE F[k - 1] \o Scored(E[k], graph)
    IN F[Len(entries)]

\* the (score, chain) list built by the loop over the entry points
ScoredChains(graph) ==
    LET entries == EntryList(graph)
        F[k \in 0..Len(entries)] ==
            IF k = 0 THEN <<>>
            ELSE LET entry_chains == get_call_chain(graph, entries[k], MaxDepth)
                 IN F[k - 1] \o Scored(entry_chains, graph)
    IN F[Len(entries)]

identify_core_chains(graph) ==
    LET sorted == SortByScoreDesc(ScoredChains(graph))
        top == PySlice(sorted, MaxChains)
    IN [i \in 1..Len(top) |-> top[i][2]]

----------------------------------------------------------------------------
(* Phase 2: difficulty scoring.  The score is kept scaled by DScale.       *)

AbstractionOf(node) ==
    (IF node.decorators # <<>> THEN Len(node.decorators) * 3 ELSE 0)
    + (IF node.is_async THEN 5 ELSE 0)
    + (IF node.is_generator THEN 5 ELSE 0)

DifficultyScore(chain, graph) ==
    LET n == Len(chain)
        length_score == Min(20, n * 4) * DScale
        sum_complexity == SumSeq([i \in 1..n |-> graph.nodes[chain[i]].complexity])
        complexity_score == Min(30 * DScale, (sum_complexity * 2 * DScale) \div n)
        abstraction_score ==
            Min(25, SumSeq([i \in 1..n |-> AbstractionOf(graph.nodes[chain[i]])]))
            * DScale
        total_deps == SumSeq([i \in 1..n |-> graph.nodes[chain[i]].depends_on])
        dep_score == Min(25, total_deps * 2) * DScale
    IN length_score + complexity_score + abstraction_score + dep_score

\* the tutorial band ends at 10 instead of 20
calculate_difficulty_narrow_tutorial(chain, graph) ==
    LET score == DifficultyScore(chain, graph)
    IN IF score < 10 * DScale THEN TUTORIAL
       ELSE IF score < 40 * DScale THEN BASIC
       ELSE IF score < 60 * DScale THEN INTERMEDIATE
       ELSE IF score < 80 * DScale THEN ADVANCED
       ELSE EXPERT

\* the thresholds compare with <= : a score on a threshold stays in the
\* lower tier
calculate_difficulty_inclusive(chain, graph) ==
    LET score == DifficultyScore(chain, graph)
    IN IF score <= 20 * DScale THEN TUTORIAL
       ELSE IF score <= 40 * DScale THEN BASIC
       ELSE IF score <= 60 * DScale THEN INTERMEDIATE
       ELSE IF score <= 80 * DScale THEN ADVANCED
       ELSE EXPERT

calculate_difficulty(chain, graph) ==
    LET score == DifficultyScore(chain, graph)
    IN IF score < 20 * DScale THEN TUTORIAL
       ELSE IF score < 40 * DScale THEN BASIC
       ELSE IF score < 60 * DScale THEN INTERMEDIATE
       ELSE IF score < 80 * DScale THEN ADVANCED
       ELSE EXPERT

----------------------------------------------------------------------------
(* Phase 3: challenge type selection *)

\* the types every rule would add, before the cut to five
SelectedBeforeCut(chain, difficulty, graph, complex) ==
    LET n == Len(chain)
        has_decorators == \E i \in 1..n : graph.nodes[chain[i]].decorators # <<>>
    IN <<"MULTIPLE_CHOICE">>
       \o (IF n >= 3 THEN <<"CODE_TRACING">> ELSE <<>>)
       \o (IF has_decorators \/ difficulty >= INTERMEDIATE
           THEN <<"FILL_BLANK">> ELSE <<>>)
       \o (IF difficulty >= INTERMEDIATE THEN <<"CODE_COMPLETION">> ELSE <<>>)
       \o (IF complex THEN <<"DEBUGGING">> ELSE <<>>)
       \o (IF difficulty >= ADVANCED THEN <<"ARCHITECTURE">> ELSE <<>>)

\* debugging is added from a mean complexity of 10, not above it
select_challenge_types_debug_at_ten(chain, difficulty, graph) ==
    LET n == Len(chain)
        sum_complexity == SumSeq([i \in 1..n |-> graph.nodes[chain[i]].complexity])
    IN PySlice(SelectedBeforeCut(chain, difficulty, graph, sum_complexity >= 10 * n), 5)

\* the list is cut to four types, not five
select_challenge_types_cut_to_four(chain, difficulty, graph) ==
    LET n == Len(chain)
        sum_complexity == SumSeq([i \in 1..n |-> graph.nodes[chain[i]].complexity])
    IN PySlice(SelectedBeforeCut(chain, difficulty, graph, sum_complexity > 10 * n), 4)

\* architecture is added for EXPERT only
select_challenge_types_architecture_expert_only(chain, difficulty, graph) ==
    LET n == Len(chain)
        sum_complexity == SumSeq([i \in 1..n |-> graph.nodes[chain[i]].complexity])
        before == SelectedBeforeCut(chain, difficulty, graph, sum_complexity > 10 * n)
    IN PySlice(SelectSeq(before, LAMBDA t : t # "ARCHITECTURE" \/ difficulty >= EXPERT),
               5)

\* fill-blank is added for decorated chains only, whatever the difficulty
select_challenge_types_fill_blank_decorators_only(chain, difficulty, graph) ==
    LET n == Len(chain)
        sum_complexity == SumSeq([i \in 1..n |-> graph.nodes[chain[i]].complexity])
        has_decorators == \E i \in 1..n : graph.nodes[chain[i]].decorators # <<>>
        before == SelectedBeforeCut(chain, difficulty, graph, sum_complexity > 10 * n)
    IN PySlice(SelectSeq(before, LAMBDA t : t # "FILL_BLANK" \/ has_decorators), 5)

select_challenge_types(chain, difficulty, graph) ==
    LET n == Len(chain)
        sum_complexity == SumSeq([i \in 1..n |-> graph.nodes[chain[i]].complexity])
        complex == sum_complexity > 10 * n          \* avg_complexity > 10
        has_decorators == \E i \in 1..n : graph.nodes[chain[i]].decorators # <<>>
        challenges ==
            <<"MULTIPLE_CHOICE">>
            \o (IF n >= 3 THEN <<"CODE_TRACING">> ELSE <<>>)
            \o (IF has_decorators \/ difficulty >= INTERMEDIATE
                THEN <<"FILL_BLANK">> ELSE <<>>)
            \o (IF difficulty >= INTERMEDIATE THEN <<"CODE_COMPLETION">> ELSE <<>>)
            \o (IF complex THEN <<"DEBUGGING">> ELSE <<>>)
            \o (IF difficulty >= ADVANCED THEN <<"ARCHITECTURE">> ELSE <<>>)
    IN PySlice(challenges, 5)

----------------------------------------------------------------------------
(* Phase 4: question generation *)

\* str(n) for the small integers the templates format
IntStr(n) ==
    CASE n = -1 -> "-1" [] n = 0 -> "0" [] n = 1 -> "1" [] n = 2 -> "2"
      [] n = 3 -> "3" [] n = 4 -> "4" [] n = 5 -> "5" [] OTHER -> "many"

\* list(node.calls)[0] if node.calls else "None"
FirstCall(node) ==
    IF node.calls # {} THEN SortedIds(node.calls)[1] ELSE "None"

generate_plausible_functions(graph) == SortedIds(DOMAIN graph.nodes)

\* the parameter-count distractors are built with i in [0, 1, 2]: the first
\* one is the correct count
TemplatesCountFromZero(node, graph) ==
    << [question |-> <<"What does it return?", node.name>>,
        correct |-> IF node.return_type # "" THEN node.return_type ELSE "None",
        distractors |-> <<"str", "dict", "list", "object">>],
       [question |-> <<"How many parameters does it accept?", node.name>>,
        correct |-> IntStr(node.parameters),
        distractors |-> <<IntStr(node.parameters), IntStr(node.parameters + 1),
                          IntStr(node.parameters + 2)>>],
       [question |-> <<"Which function does it call first?", node.name>>,
        correct |-> FirstCall(node),
        distractors |-> generate_plausible_functions(graph)] >>

\* the three fact templates of generate_multiple_choice
Templates(node, graph) ==
    << [question |-> <<"What does it return?", node.name>>,
        correct |-> IF node.return_type # "" THEN node.return_type ELSE "None",
        distractors |-> <<"str", "dict", "list", "object">>],
       [question |-> <<"How many parameters does it accept?", node.name>>,
        correct |-> IntStr(node.parameters),
        distractors |-> <<IntStr(node.parameters - 1), IntStr(node.parameters + 1),
                          IntStr(node.parameters + 2)>>],
       [question |-> <<"Which function does it call first?", node.name>>,
        correct |-> FirstCall(node),
        distractors |-> generate_plausible_functions(graph)] >>

Hint(text, ref, line_start, line_end) ==
    [text |-> text, ref |-> ref, line_start |-> line_start, line_end |-> line_end]

generate_hints(node) ==
    (IF node.docstring # ""
     THEN <<Hint("Check the docstring", node.docstring, 0, 0)>> ELSE <<>>)
    \o (IF node.calls # {}
        THEN <<Hint("This function calls", FirstCall(node), 0, 0)>> ELSE <<>>)
    \o <<Hint("Look at lines", "", node.line_start, node.line_end)>>

Challenge(type, question, options, answer, node) ==
    [type |-> type, question |-> question, options |-> options,
     answer |-> answer, hints |-> generate_hints(node)]

\* the correct answer followed by the first three distractors that differ from it
create_mc_challenge(template, node) ==
    LET wrong == SelectSeq(template.distractors, LAMBDA d : d # template.correct)
    IN Challenge("MULTIPLE_CHOICE", template.question,
                 <<template.correct>> \o SubSeq(wrong, 1, Min(3, Len(wrong))),
                 <<template.correct>>, node)

\* template is the index random.choice draws
generate_multiple_choice(node, graph, template) ==
    create_mc_challenge(Templates(node, graph)[template], node)

generate_code_tracing(chain, graph) ==
    Challenge("CODE_TRACING", <<"Trace the execution", chain[1], Last(chain)>>,
              <<>>, chain, graph.nodes[chain[1]])

generate_fill_blank(node) ==
    Challenge("FILL_BLANK", <<"Fill in the blanks", node.name>>, <<>>,
              node.decorators \o <<"return">>, node)

\* code completion, debugging and architecture: a prompt on the node
generate_other(ctype, node) ==
    Challenge(ctype, <<"Work on the snippet", node.name>>, <<>>, <<node.name>>, node)

\* the dispatch of generate_levels' inner loop for one selected type
GenerateChallenge(ctype, chain, graph, template) ==
    LET node == graph.nodes[chain[1]]
    IN CASE ctype = "MULTIPLE_CHOICE" -> generate_multiple_choice(node, graph, template)
         [] ctype = "CODE_TRACING" -> generate_code_tracing(chain, graph)
         [] ctype = "FILL_BLANK" -> generate_fill_blank(node)
         [] OTHER -> generate_other(ctype, node)

----------------------------------------------------------------------------
(* Phase 5: hints, objectives and level metadata *)

ObjectivesOf(node) ==
    (IF node.decorators # <<>>
     THEN <<<<"Understand decorator pattern", node.decorators[1]>>>> ELSE <<>>)
    \o (IF node.is_async THEN <<<<"Learn async/await pattern", "">>>> ELSE <<>>)
    \o (IF node.complexity > 15
        THEN <<<<"Master control flow", node.name>>>> ELSE <<>>)

generate_objectives(chain, graph) ==
    LET F[k \in 0..Len(chain)] ==
            IF k = 0 THEN <<>>
            ELSE F[k - 1] \o ObjectivesOf(graph.nodes[chain[k]])
        objectives == <<<<"Trace execution", chain[1], Last(chain)>>>> \o F[Len(chain)]
    IN PySlice(objectives, 3)

\* decimal digits of a positive integer, most significant first
RECURSIVE Digits(_)
Digits(n) == IF n < 10 THEN <<n>> ELSE Append(Digits(n \div 10), n % 10)

\* f"level_{i+1}"
LevelIdConstant(i) == <<"level_", 1>>

LevelId(i) == <<"level_">> \o Digits(i + 1)

\* the integer a level id ends with
RECURSIVE DigitsValue(_)
DigitsValue(ds) ==
    IF ds = <<>> THEN 0 ELSE 10 * DigitsValue(SubSeq(ds, 1, Len(ds) - 1)) + Last(ds)
IdNumber(id) == DigitsValue(Tail(id))

generate_level_name(chain, difficulty) == <<chain[1], Last(chain), difficulty>>
generate_description(chain, graph) == chain
extract_relevant_code(chain, graph) ==
    [i \in 1..Len(chain) |->
        <<graph.nodes[chain[i]].line_start, graph.nodes[chain[i]].line_end>>]

calculate_xp_reward(difficulty) == 50 * difficulty

MinutesOf(ctype) ==
    CASE ctype = "MULTIPLE_CHOICE" -> 2
      [] ctype = "CODE_TRACING" -> 4
      [] ctype = "FILL_BLANK" -> 4
      [] OTHER -> 5
estimate_time(challenges) ==
    SumSeq([i \in 1..Len(challenges) |-> MinutesOf(challenges[i].type)])

\* the nodes reachable from the nodes of S by zero or more calls edges
RECURSIVE ReachableFrom(_, _)
ReachableFrom(S, graph) ==
    LET next == S \cup UNION {graph.nodes[n].calls : n \in S \cap DOMAIN graph.nodes}
    IN IF next = S THEN S ELSE ReachableFrom(next, graph)

\* every level but the first requires the preceding level
determine_prerequisites_always(i, lvls) ==
    IF i = 0 THEN {} ELSE {lvls[i].id}

\* the id of the preceding level when the chain about to become level i+1
\* starts on, or is reachable from, the preceding level's chain
determine_prerequisites(i, lvls) ==
    IF i = 0 THEN {}
    ELSE LET prev == lvls[i]
             entry == core_chains[i + 1][1]
         IN IF entry \in ReachableFrom(SeqElems(prev.call_chain), call_graph)
            THEN {prev.id} ELSE {}

----------------------------------------------------------------------------
(* generate_levels(call_graph, max_levels) *)

\* the loop forgets to cut the ranking to max_levels
ChainsToBuildAll(core, n) == core

\* core_chains[:max_levels], the chains the loop iterates over
ChainsToBuild(core, n) == PySlice(core, n)

\* the reward shrinks with the position of the level
LevelXpDecaying(difficulty, i) == calculate_xp_reward(difficulty) - 10 * i

LevelXp(difficulty, i) == calculate_xp_reward(difficulty)

\* one iteration of the loop body: the level built for chain number i
\* (0-based) when random.choice draws `template`
BuildLevel(i, chain, lvls, graph, template) ==
    LET difficulty == calculate_difficulty(chain, graph)
        challenge_types == select_challenge_types(chain, difficulty, graph)
        challenges ==
            [k \in 1..Len(challenge_types) |->
                GenerateChallenge(challenge_types[k], chain, graph, template)]
    IN [id |-> LevelId(i),
        name |-> generate_level_name(chain, difficulty),
        description |-> generate_description(chain, graph),
        difficulty |-> difficulty,
        entry_function |-> chain[1],
        call_chain |-> chain,
        code_snippet |-> extract_relevant_code(chain, graph),
        challenges |-> challenges,
        objectives |-> generate_objectives(chain, graph),
        xp_reward |-> LevelXp(difficulty, i),
        estimated_time |-> estimate_time(challenges),
        prerequisites |-> determine_prerequisites(i, lvls)]

\* levels = []; core_chains = identify_core_chains(call_graph)
Start ==
    /\ pc = "start"
    /\ core_chains' = identify_core_chains(call_graph)
    /\ levels' = <<>>
    /\ pc' = "loop"
    /\ UNCHANGED <<ui, call_graph, max_levels, outcome, run, first_levels,
                   stack, pending, chains, sel>>

\* one pass of `for i, chain in enumerate(core_chains[:max_levels])`
NextLevel ==
    /\ pc = "loop"
    /\ Len(levels) < Len(ChainsToBuild(core_chains, max_levels))
    /\ \E template \in 1..3 :
          LET i == Len(levels)
              chain == ChainsToBuild(core_chains, max_levels)[i + 1]
          IN levels' = Append(levels, BuildLevel(i, chain, levels, call_graph, template))
    /\ UNCHANGED <<ui, call_graph, max_levels, pc, core_chains, outcome, run,
                   first_levels, stack, pending, chains, sel>>

\* return levels
Return ==
    /\ pc = "loop"
    /\ Len(levels) >= Len(ChainsToBuild(core_chains, max_levels))
    /\ pc' = "done"
    /\ outcome' = "returned"
    /\ UNCHANGED <<ui, call_graph, max_levels, core_chains, levels, run,
                   first_levels, stack, pending, chains, sel>>

Init ==
    /\ ui = <<>>
    /\ call_graph \in SmallGraphs \cup DeepGraphs
    /\ max_levels \in 0..MaxMaxLevels
    /\ pc = "start"
    /\ core_chains = <<>>
    /\ levels = <<>>
    /\ outcome = "running"
    /\ run = 1
    /\ first_levels = <<>>
    /\ stack = <<>>
    /\ pending = <<>>
    /\ chains = <<>>
    /\ sel = <<>>

Next == Start \/ NextLevel \/ Return

Spec == Init /\ [][Next]_vars

----------------------------------------------------------------------------
(* Properties of generate_levels *)

Returned == pc = "done" /\ outcome = "returned"

TypesOf(level) == [k \in 1..Len(level.challenges) |-> level.challenges[k].type]

Distinct(s) == \A i, j \in 1..Len(s) : i # j => s[i] # s[j]

\* C1: every level built by generate_levels called with max_levels >= 1
\* has between 3 and 5 challenges, and no two challenges of one level
\* have the same type.
C1_LevelsHaveThreeToFiveDistinctChallenges ==
    max_levels >= 1 =>
        \A k \in 1..Len(levels) :
            /\ Len(levels[k].challenges) >= 3
            /\ Len(levels[k].challenges) <= 5
            /\ Distinct(TypesOf(levels[k]))

\* C2: for max_levels >= 1, generate_levels builds at most max_levels
\* levels, level number k is built from chain number k of the ranking of
\* identify_core_chains, and the number a level id ends with grows along
\* the output.
C2_AtMostMaxLevelsInRankedOrder ==
    max_levels >= 1 =>
        /\ Len(levels) <= max_levels
        /\ levels # <<>> =>
              LET ranking == identify_core_chains(call_graph)
              IN /\ Len(levels) <= Len(ranking)
                 /\ [k \in 1..Len(levels) |-> levels[k].call_chain]
                       = SubSeq(ranking, 1, Len(levels))
        /\ \A k \in 1..(Len(levels) - 1) :
              IdNumber(levels[k].id) < IdNumber(levels[k + 1].id)

\* a run that returned exactly max_levels levels although more chains were ranked
C2_Witness ==
    /\ Returned
    /\ max_levels >= 2
    /\ Len(levels) = max_levels
    /\ Len(core_chains) > max_levels

\* C3: no two levels of the output have the same call_chain sequence.
C3_NoDuplicateChains ==
    \A j, k \in 1..Len(levels) : j # k => levels[j].call_chain # levels[k].call_chain

\* a returned output with two levels that start at different entry points
\* and run through a common node
C3_Witness ==
    /\ Returned
    /\ \E j, k \in 1..Len(levels) :
          /\ levels[j].entry_function # levels[k].entry_function
          /\ SeqElems(levels[j].call_chain) \cap SeqElems(levels[k].call_chain) # {}

\* C4: every id in the prerequisites of the level at index k is the id of a
\* level at a smaller index and of no level at index k or later; the first
\* level has no prerequisites.
C4_PrerequisitesPointBackwards ==
    \A k \in 1..Len(levels) :
        /\ \A p \in levels[k].prerequisites :
              /\ \E j \in 1..(k - 1) : levels[j].id = p
              /\ \A j \in k..Len(levels) : levels[j].id # p
        /\ k = 1 => levels[k].prerequisites = {}

\* a returned output in which a later level has a prerequisite
C4_Witness ==
    /\ Returned
    /\ \E k \in 2..Len(levels) : levels[k].prerequisites # {}

\* C9: within one output, a level whose difficulty tier is lower than or
\* equal to another's has an xp_reward lower than or equal to the other's,
\* and every xp_reward is positive.
C9_XpRewardMonotoneInDifficulty ==
    /\ \A j, k \in 1..Len(levels) :
          levels[j].difficulty <= levels[k].difficulty
              => levels[j].xp_reward <= levels[k].xp_reward
    /\ \A k \in 1..Len(levels) : levels[k].xp_reward > 0

\* a returned output in which an earlier level has a higher tier than a
\* later one
C9_Witness ==
    /\ Returned
    /\ \E j, k \in 1..Len(levels) :
          j < k /\ levels[j].difficulty > levels[k].difficulty

\* C10: for a graph with no entry points identify_core_chains returns the
\* empty list, generate_levels builds no level and returns the empty list,
\* and nothing is raised.
C10_NoEntryPointsGivesEmptyOutput ==
    call_graph.entry_points = {} =>
        /\ identify_core_chains(call_graph) = <<>>
        /\ levels = <<>>
        /\ outcome # "raised"
        /\ pc = "loop" => ENABLED Return
        /\ pc = "done" => outcome = "returned"

\* generate_levels returned for a graph that has call edges, no entry
\* point, and a positive max_levels
C10_Witness ==
    /\ Returned
    /\ call_graph.entry_points = {}
    /\ max_levels >= 1
    /\ \E n \in DOMAIN call_graph.nodes : call_graph.nodes[n].calls # {}

\* the chain starts at an entry point and every later node is called by the
\* node before it
IsCallPathFromEntry(chain, graph) ==
    /\ chain # <<>>
    /\ chain[1] \in graph.entry_points
    /\ \A i \in 1..(Len(chain) - 1) : chain[i + 1] \in graph.nodes[chain[i]].calls

\* the nodes some sequence of calls from a node of `from` leads to: the
\* least set that holds `from` and is closed under calls
CallClosure(from, graph) ==
    LET closed == {S \in SUBSET DOMAIN graph.nodes :
                     /\ from \subseteq S
                     /\ \A n \in S : graph.nodes[n].calls \subseteq S}
    IN {n \in DOMAIN graph.nodes : \A S \in closed : n \in S}

ReachableFromEntries(graph) == CallClosure(graph.entry_points, graph)

IsGap(chain) ==
    Len(select_challenge_types(chain, calculate_difficulty(chain, call_graph),
                               call_graph)) < 3

\* C17: when a ranked chain cannot yield at least 3 challenges,
\* generate_levels emits no level for that chain, does not abort, and
\* returns the levels of all other chains among the top max_levels, in
\* ranked order, each with 3 to 5 challenges.
C17_GapChainsAreDropped ==
    Returned =>
        LET ranked == PySlice(core_chains, max_levels)
            kept == SelectSeq(ranked, LAMBDA c : ~IsGap(c))
        IN /\ [k \in 1..Len(levels) |-> levels[k].call_chain] = kept
           /\ \A k \in 1..Len(levels) :
                 Len(levels[k].challenges) \in 3..5

----------------------------------------------------------------------------
(* generate_levels called with a max_levels that is not positive *)

\* the small graphs with one fixed assignment of node attributes
ConfigGraphs ==
    {g \in SmallGraphs :
        /\ g.nodes["a"].complexity = PlainNode.complexity
        /\ g.nodes["b"].complexity = RichNode.complexity
        /\ g.nodes["c"].complexity = PlainNode.complexity}

InitConfig ==
    /\ ui = <<>>
    /\ call_graph \in ConfigGraphs
    /\ max_levels \in (0 - MaxShortfall)..0
    /\ pc = "start"
    /\ core_chains = <<>>
    /\ levels = <<>>
    /\ outcome = "running"
    /\ run = 1
    /\ first_levels = <<>>
    /\ stack = <<>>
    /\ pending = <<>>
    /\ chains = <<>>
    /\ sel = <<>>

SpecConfig == InitConfig /\ [][Next]_vars

\* C15: generate_levels called with max_levels <= 0 is rejected before any
\* chain is enumerated or any level is built: it ends by raising, and no
\* list, empty or truncated, is returned.
C15_NonPositiveMaxLevelsRejected ==
    max_levels <= 0 =>
        /\ core_chains = <<>>
        /\ levels = <<>>
        /\ outcome # "returned"
        /\ pc = "done" => outcome = "raised"

----------------------------------------------------------------------------
(* generate_levels on a graph with a dangling call: some calls entry names *)
(* an id that graph.nodes does not hold.  Looking such an id up in         *)
(* graph.nodes raises KeyError.                                            *)

\* the id no node has
UnknownId == "d"

DanglingGraphs ==
    {CallGraph(SmallNodes, c, [n \in SmallNodes |-> PlainNode], e) :
        c \in {f \in [SmallNodes -> SUBSET (SmallNodes \cup {UnknownId})] :
                 /\ \A n \in SmallNodes : n \notin f[n]
                 /\ \E n \in SmallNodes : UnknownId \in f[n]},
        e \in SUBSET SmallNodes}

HasDanglingCall(graph) ==
    \E n \in DOMAIN graph.nodes : graph.nodes[n].calls \ DOMAIN graph.nodes # {}

\* the ids on the call paths of at most `hops` further calls from the ids of S
RECURSIVE WalkedIds(_, _, _)
WalkedIds(S, graph, hops) ==
    LET next == S \cup UNION {graph.nodes[n].calls : n \in S \cap DOMAIN graph.nodes}
    IN IF hops = 0 \/ next = S THEN S ELSE WalkedIds(next, graph, hops - 1)

\* the ids the chain enumeration puts on a chain without graph.nodes
\* holding them
UnknownIdsWalked(graph) ==
    WalkedIds(graph.entry_points, graph, MaxDepth - 1) \ DOMAIN graph.nodes

\* identify_core_chains looks up graph.nodes[id] for an id on a chain that
\* the graph does not hold: the KeyError leaves generate_levels
RaiseKeyError ==
    /\ pc = "start"
    /\ UnknownIdsWalked(call_graph) # {}
    /\ pc' = "done"
    /\ outcome' = "raised"
    /\ UNCHANGED <<ui, call_graph, max_levels, core_chains, levels, run,
                   first_levels, stack, pending, chains, sel>>

\* no chain reaches the dangling call: phase 1 completes
StartKnown ==
    /\ UnknownIdsWalked(call_graph) = {}
    /\ Start

InitDangling ==
    /\ ui = <<>>
    /\ call_graph \in DanglingGraphs
    /\ max_levels \in 1..MaxMaxLevels
    /\ pc = "start"
    /\ core_chains = <<>>
    /\ levels = <<>>
    /\ outcome = "running"
    /\ run = 1
    /\ first_levels = <<>>
    /\ stack = <<>>
    /\ pending = <<>>
    /\ chains = <<>>
    /\ sel = <<>>

NextDangling == RaiseKeyError \/ StartKnown \/ NextLevel \/ Return

SpecDangling == InitDangling /\ [][NextDangling]_vars

\* C16: when a calls entry of the graph names an id that graph.nodes does
\* not hold, generate_levels builds and returns no level: the run ends by
\* raising.
C16_DanglingCallAborts ==
    HasDanglingCall(call_graph) =>
        /\ levels = <<>>
        /\ outcome # "returned"
        /\ pc = "done" => outcome = "raised"

----------------------------------------------------------------------------
(* Two calls of generate_levels on the same unchanged graph *)

\* the caller keeps the first result and calls generate_levels again
CallAgain ==
    /\ pc = "done"
    /\ run = 1
    /\ first_levels' = levels
    /\ run' = 2
    /\ pc' = "start"
    /\ outcome' = "running"
    /\ levels' = <<>>
    /\ core_chains' = <<>>
    /\ UNCHANGED <<ui, call_graph, max_levels, stack, pending, chains, sel>>

InitTwice ==
    /\ ui = <<>>
    /\ call_graph \in {g \in SmallGraphs : g.entry_points = {"a"}}
    /\ max_levels \in 1..MaxMaxLevels
    /\ pc = "start"
    /\ core_chains = <<>>
    /\ levels = <<>>
    /\ outcome = "running"
    /\ run = 1
    /\ first_levels = <<>>
    /\ stack = <<>>
    /\ pending = <<>>
    /\ chains = <<>>
    /\ sel = <<>>

NextTwice == Start \/ NextLevel \/ Return \/ CallAgain

SpecTwice == InitTwice /\ [][NextTwice]_vars

\* C5: a second call of generate_levels on the same unchanged graph with
\* the same max_levels returns the list the first call returned.
C5_SecondCallReturnsSameLevels ==
    (run = 2 /\ Returned) => levels = first_levels

----------------------------------------------------------------------------
(* identify_core_chains step by step: the loop over the entry points, and  *)
(* inside it the walk of get_call_chain with an explicit stack of          *)
(* in-progress paths, each carrying its own visited nodes.                 *)

EnumStart ==
    /\ pc = "start"
    /\ pending' = EntryList(call_graph)
    /\ stack' = <<>>
    /\ chains' = <<>>
    /\ pc' = "enum"
    /\ UNCHANGED <<ui, call_graph, max_levels, core_chains, levels, outcome, run,
                   first_levels, sel>>

\* for entry_id in call_graph.entry_points: get_call_chain(entry_id, 5) begins
NextEntry ==
    /\ pc = "enum"
    /\ stack = <<>>
    /\ pending # <<>>
    /\ stack' = << <<Head(pending)>> >>
    /\ pending' = Tail(pending)
    /\ UNCHANGED <<ui, call_graph, max_levels, pc, core_chains, levels, outcome,
                   run, first_levels, chains, sel>>

\* the path on top of the stack is replaced by its extensions
ExtendPath ==
    /\ pc = "enum"
    /\ stack # <<>>
    /\ LET path == Head(stack)
           ext == Extensions(path, call_graph, MaxDepth)
       IN /\ ext # <<>>
          /\ Len(path) < PathCap
          /\ stack' = [k \in 1..Len(ext) |-> Append(path, ext[k])] \o Tail(stack)
    /\ UNCHANGED <<ui, call_graph, max_levels, pc, core_chains, levels, outcome,
                   run, first_levels, pending, chains, sel>>

\* nothing extends the path on top of the stack: it is a chain, and
\* identify_core_chains scores and appends it
EmitChain ==
    /\ pc = "enum"
    /\ stack # <<>>
    /\ LET path == Head(stack)
       IN /\ Extensions(path, call_graph, MaxDepth) = <<>>
          /\ chains' = Append(chains,
                              <<calculate_chain_importance(path, call_graph), path>>)
          /\ stack' = Tail(stack)
    /\ UNCHANGED <<ui, call_graph, max_levels, pc, core_chains, levels, outcome,
                   run, first_levels, pending, sel>>

\* chains.sort(reverse=True, key=score); return the first ten chains
EnumFinish ==
    /\ pc = "enum"
    /\ stack = <<>>
    /\ pending = <<>>
    /\ LET top == PySlice(SortByScoreDesc(chains), MaxChains)
       IN core_chains' = [i \in 1..Len(top) |-> top[i][2]]
    /\ pc' = "done"
    /\ outcome' = "returned"
    /\ UNCHANGED <<ui, call_graph, max_levels, levels, run, first_levels, stack,
                   pending, chains, sel>>

InitEnum ==
    /\ ui = <<>>
    /\ call_graph \in RecursiveGraphs \cup DeepGraphs
    /\ max_levels = 10
    /\ pc = "start"
    /\ core_chains = <<>>
    /\ levels = <<>>
    /\ outcome = "running"
    /\ run = 1
    /\ first_levels = <<>>
    /\ stack = <<>>
    /\ pending = <<>>
    /\ chains = <<>>
    /\ sel = <<>>

NextEnum == EnumStart \/ NextEntry \/ ExtendPath \/ EmitChain \/ EnumFinish

SpecEnum == InitEnum /\ [][NextEnum]_vars

\* the step-by-step enumeration returns what the operator computes
EnumAgreesWithOperator ==
    pc = "done" => core_chains = identify_core_chains(call_graph)

HasCallCycle(graph) ==
    \E m, n \in DOMAIN graph.nodes :
        m # n /\ n \in graph.nodes[m].calls /\ m \in graph.nodes[n].calls

HasSelfCall(graph) ==
    \E n \in DOMAIN graph.nodes : n \in graph.nodes[n].calls

\* A ranking function of the enumeration.  With B larger than the number of
\* callees a node can have, a path of l nodes weighs B^(max_depth - l), an
\* entry point not yet started weighs B^max_depth, and one more unit is left
\* until identify_core_chains has returned.
EnumMeasure ==
    LET B == Cardinality(DOMAIN call_graph.nodes) + 1
    IN (IF pc = "done" THEN 0 ELSE 1)
       + (IF pc = "start"
          THEN (Cardinality(call_graph.entry_points) + 1) * Pow(B, MaxDepth)
          ELSE 0)
       + Len(pending) * Pow(B, MaxDepth)
       + SumSeq([k \in 1..Len(stack) |-> Pow(B, MaxDepth - Len(stack[k]))])

\* C6: chain enumeration in identify_core_chains terminates on every call
\* graph, also when the graph has call cycles or self-recursive nodes:
\* every step of the enumeration strictly lowers a measure that is never
\* negative, and as long as identify_core_chains has not returned a step
\* can be taken.
C6_EnumerationTerminates ==
    /\ [][EnumMeasure' < EnumMeasure]_vars
    /\ [](EnumMeasure >= 0)
    /\ [](pc # "done" => ENABLED NextEnum)

\* the enumeration has returned chains for a graph in which the entry point
\* "a" lies on a two-node call cycle and also calls itself
C6_Witness ==
    /\ pc = "done"
    /\ "a" \in call_graph.entry_points
    /\ "a" \in call_graph.nodes["a"].calls
    /\ \E n \in DOMAIN call_graph.nodes :
          n # "a" /\ n \in call_graph.nodes["a"].calls
                  /\ "a" \in call_graph.nodes[n].calls
    /\ core_chains # <<>>

\* C7: no chain produced by identify_core_chains holds the same node id
\* twice; neither does any path still being walked.
C7_NoRepeatedNodeInChain ==
    /\ \A k \in 1..Len(stack) : Distinct(stack[k])
    /\ \A k \in 1..Len(chains) : Distinct(chains[k][2])
    /\ \A k \in 1..Len(core_chains) : Distinct(core_chains[k])

\* a returned chain of a cyclic graph whose last node calls back into the
\* chain, while another returned chain runs through the same node
C7_Witness ==
    /\ pc = "done"
    /\ HasCallCycle(call_graph)
    /\ \E j, k \in 1..Len(core_chains) :
          /\ j # k
          /\ Len(core_chains[j]) >= 2
          /\ call_graph.nodes[Last(core_chains[j])].calls
                \cap SeqElems(core_chains[j]) # {}
          /\ Last(core_chains[j]) \in SeqElems(core_chains[k])

\* C22: every chain produced by identify_core_chains is non-empty and has
\* at most max_depth nodes, also on graphs with call paths longer than
\* max_depth; so has every path still being walked.
C22_ChainsHaveOneToMaxDepthNodes ==
    /\ \A k \in 1..Len(stack) : Len(stack[k]) \in 1..MaxDepth
    /\ \A k \in 1..Len(chains) : Len(chains[k][2]) \in 1..MaxDepth
    /\ \A k \in 1..Len(core_chains) : Len(core_chains[k]) \in 1..MaxDepth

\* a returned chain of max_depth nodes whose last node calls a node that
\* is not on the chain: the call path goes on beyond max_depth
C22_Witness ==
    /\ pc = "done"
    /\ \E k \in 1..Len(core_chains) :
          /\ Len(core_chains[k]) = MaxDepth
          /\ call_graph.nodes[Last(core_chains[k])].calls
                \ SeqElems(core_chains[k]) # {}

----------------------------------------------------------------------------
(* The ranking of identify_core_chains when the entry points are iterated  *)
(* in any order: entry_points is a collection whose order owes nothing to  *)
(* the node ids.                                                           *)

\* a -> b -> c -> d -> e where every node also calls every later node:
\* sixteen chains of one to five nodes
LayeredNodes == {"a", "b", "c", "d", "e"}

LayeredProfiles ==
    [n \in LayeredNodes |->
        CASE n = "b" -> RichNode [] n = "c" -> HeavyNode [] OTHER -> PlainNode]

LayeredGraphs ==
    {CallGraph(LayeredNodes,
               [n \in LayeredNodes |-> {m \in LayeredNodes : IdRank(m) > IdRank(n)}],
               LayeredProfiles, e) :
        e \in SUBSET LayeredNodes}

\* every order in which the elements of S can be iterated
Orderings(S) ==
    {s \in [1..Cardinality(S) -> S] :
        \A i, j \in 1..Cardinality(S) : i # j => s[i] # s[j]}

\* chains = []; the loop is about to iterate the entry points in some order
RankStart ==
    /\ pc = "start"
    /\ \E order \in Orderings(call_graph.entry_points) : pending' = order
    /\ stack' = <<>>
    /\ chains' = <<>>
    /\ pc' = "enum"
    /\ UNCHANGED <<ui, call_graph, max_levels, core_chains, levels, outcome, run,
                   first_levels, sel>>

InitRank ==
    /\ ui = <<>>
    /\ call_graph \in SmallGraphs \cup LayeredGraphs
    /\ max_levels = 10
    /\ pc = "start"
    /\ core_chains = <<>>
    /\ levels = <<>>
    /\ outcome = "running"
    /\ run = 1
    /\ first_levels = <<>>
    /\ stack = <<>>
    /\ pending = <<>>
    /\ chains = <<>>
    /\ sel = <<>>

NextRank == RankStart \/ NextEntry \/ ExtendPath \/ EmitChain \/ EnumFinish

SpecRank == InitRank /\ [][NextRank]_vars

\* the score identify_core_chains gave the chain
ScoreOf(chain) == calculate_chain_importance(chain, call_graph)

\* chain x precedes chain y in the lexicographic order of their node ids
RECURSIVE LexBefore(_, _)
LexBefore(x, y) ==
    IF x = <<>> THEN y # <<>>
    ELSE IF y = <<>> THEN FALSE
    ELSE IF Head(x) # Head(y) THEN IdRank(Head(x)) < IdRank(Head(y))
    ELSE LexBefore(Tail(x), Tail(y))

\* C11: of two returned chains with equal importance scores the one with
\* fewer nodes is ranked first, and of two with equally many nodes the one
\* whose node ids are lexicographically smaller, in whatever order the entry
\* points and chains were enumerated.
C11_TiesBrokenByLengthThenIds ==
    pc = "done" =>
        \A j, k \in 1..Len(core_chains) :
            (j < k /\ ScoreOf(core_chains[j]) = ScoreOf(core_chains[k])) =>
                \/ Len(core_chains[j]) < Len(core_chains[k])
                \/ /\ Len(core_chains[j]) = Len(core_chains[k])
                   /\ LexBefore(core_chains[j], core_chains[k])

\* C18: identify_core_chains returns the top max_chains candidates by
\* importance: at most max_chains chains, as many as there are candidates
\* up to that number, every one of them a candidate, in non-increasing
\* order of score, and no candidate left out scores strictly higher than a
\* returned chain.
C18_TopChainsByScore ==
    pc = "done" =>
        LET candidates == {chains[i][2] : i \in 1..Len(chains)}
        IN /\ Len(core_chains) = Min(MaxChains, Len(chains))
           /\ SeqElems(core_chains) \subseteq candidates
           /\ \A k \in 1..(Len(core_chains) - 1) :
                 ScoreOf(core_chains[k]) >= ScoreOf(core_chains[k + 1])
           /\ \A c \in candidates \ SeqElems(core_chains) :
                 \A k \in 1..Len(core_chains) :
                     ScoreOf(c) <= ScoreOf(core_chains[k])

\* identify_core_chains returned ten chains of more than ten candidates,
\* left out a candidate that scores strictly lower than every returned
\* chain, and the returned chains differ in score
C18_Witness ==
    /\ pc = "done"
    /\ Len(chains) > MaxChains
    /\ Len(core_chains) = MaxChains
    /\ ScoreOf(core_chains[1]) > ScoreOf(core_chains[MaxChains])
    /\ \E i \in 1..Len(chains) :
          /\ chains[i][2] \notin SeqElems(core_chains)
          /\ chains[i][1] < ScoreOf(core_chains[MaxChains])

----------------------------------------------------------------------------
(* Single calls of the pure functions on a chain a -> b -> ... of 1 to     *)
(* max_depth nodes with every mix of node profiles.                        *)

\* a node whose complexity sits on the debugging threshold
BoundaryNode ==
    [complexity |-> 10, decorators |-> <<>>, is_async |-> TRUE,
     is_generator |-> FALSE, docstring |-> "Boundary", depends_on |-> 1,
     return_type |-> "list", parameters |-> 3]

\* a decorated node of low complexity
LightNode ==
    [complexity |-> 4, decorators |-> <<"property">>, is_async |-> FALSE,
     is_generator |-> FALSE, docstring |-> "", depends_on |-> 2,
     return_type |-> "int", parameters |-> 0]

ChainProfiles == Profiles \cup {BoundaryNode, LightNode}

ChainGraphs ==
    UNION {
        {CallGraph({NodeSeq[i] : i \in 1..n},
                   [m \in {NodeSeq[i] : i \in 1..n} |->
                       IF IdRank(m) < n THEN {NodeSeq[IdRank(m) + 1]} ELSE {}],
                   p, {"a"}) :
            p \in [{NodeSeq[i] : i \in 1..n} -> ChainProfiles]} :
        n \in 1..MaxDepth}

InitSelect ==
    /\ ui = <<>>
    /\ call_graph \in ChainGraphs
    /\ sel \in {[chain |-> SortedIds(DOMAIN call_graph.nodes), difficulty |-> d,
                 types |-> <<>>, tier |-> 0, importance |-> <<>>] :
                d \in Difficulty}
    /\ max_levels = 10
    /\ pc = "start"
    /\ core_chains = <<>>
    /\ levels = <<>>
    /\ outcome = "running"
    /\ run = 1
    /\ first_levels = <<>>
    /\ stack = <<>>
    /\ pending = <<>>
    /\ chains = <<>>

\* select_challenge_types(chain, difficulty, graph)
CallSelect ==
    /\ pc = "start"
    /\ sel' = [sel EXCEPT !.types =
                  select_challenge_types(sel.chain, sel.difficulty, call_graph)]
    /\ pc' = "selected"
    /\ UNCHANGED <<ui, call_graph, max_levels, core_chains, levels, outcome, run,
                   first_levels, stack, pending, chains>>

\* calculate_difficulty(chain, graph)
CallClassify ==
    /\ pc = "start"
    /\ sel' = [sel EXCEPT !.tier = calculate_difficulty(sel.chain, call_graph)]
    /\ pc' = "classified"
    /\ UNCHANGED <<ui, call_graph, max_levels, core_chains, levels, outcome, run,
                   first_levels, stack, pending, chains>>

\* calculate_chain_importance(chain, graph), its four parts kept apart
CallImportance ==
    /\ pc = "start"
    /\ sel' = [sel EXCEPT !.importance = ImportanceParts(sel.chain, call_graph)]
    /\ pc' = "scored"
    /\ UNCHANGED <<ui, call_graph, max_levels, core_chains, levels, outcome, run,
                   first_levels, stack, pending, chains>>

\* generate_multiple_choice(node, graph) for a node of the graph, with the
\* template random.choice draws
CallMultipleChoice ==
    /\ pc = "start"
    /\ \E id \in DOMAIN call_graph.nodes, template \in 1..3 :
          sel' = [challenge |->
                     [node |-> id, template |-> template,
                      mc |-> generate_multiple_choice(call_graph.nodes[id],
                                                      call_graph, template)]]
    /\ pc' = "asked"
    /\ UNCHANGED <<ui, call_graph, max_levels, core_chains, levels, outcome, run,
                   first_levels, stack, pending, chains>>

NextSelect == CallSelect \/ CallClassify \/ CallImportance

InitChoice ==
    /\ ui = <<>>
    /\ call_graph \in ChainGraphs
    /\ sel = [challenge |-> <<>>]
    /\ max_levels = 10
    /\ pc = "start"
    /\ core_chains = <<>>
    /\ levels = <<>>
    /\ outcome = "running"
    /\ run = 1
    /\ first_levels = <<>>
    /\ stack = <<>>
    /\ pending = <<>>
    /\ chains = <<>>

NextChoice == CallMultipleChoice

SpecChoice == InitChoice /\ [][NextChoice]_vars

SpecSelect == InitSelect /\ [][NextSelect]_vars

\* C8: for every non-empty chain, difficulty tier and graph,
\* select_challenge_types returns at least 3 and at most 5 challenge types,
\* and no type twice.
C8_SelectReturnsThreeToFiveDistinctTypes ==
    pc = "selected" =>
        /\ Len(sel.types) >= 3
        /\ Len(sel.types) <= 5
        /\ Distinct(sel.types)

\* the only node of a one-node chain
OnlyNode == call_graph.nodes[sel.chain[1]]

\* a call on the chain [f] of a graph whose only node f calls nothing
SingleNodeCall ==
    /\ Len(sel.chain) = 1
    /\ OnlyNode.calls = {}

\* C12 as stated: for every graph in which an entry point f calls nothing,
\* calculate_difficulty([f], graph) returns TUTORIAL.
C12_SingleNodeChainIsTutorial ==
    (pc = "classified" /\ SingleNodeCall) => sel.tier = TUTORIAL

\* C12 amended: for an entry point f that calls nothing,
\* calculate_difficulty([f], graph) returns TUTORIAL exactly when
\* 2 * complexity + 3 per decorator + 5 if async + 5 if generator
\* + 2 * dependency count of f is below 16.
C12_SingleSimpleNodeIsTutorial ==
    (pc = "classified" /\ SingleNodeCall) =>
        (sel.tier = TUTORIAL
            <=> 2 * OnlyNode.complexity + 3 * Len(OnlyNode.decorators)
                  + (IF OnlyNode.is_async THEN 5 ELSE 0)
                  + (IF OnlyNode.is_generator THEN 5 ELSE 0)
                  + 2 * OnlyNode.depends_on < 16)

\* calculate_difficulty returned TUTORIAL for a one-node chain whose node
\* has a decorator and dependencies
C12_Witness ==
    /\ pc = "classified"
    /\ SingleNodeCall
    /\ sel.tier = TUTORIAL
    /\ OnlyNode.decorators # <<>>
    /\ OnlyNode.depends_on > 0

\* C13 as stated: for a single-node chain [f] whose f calls nothing,
\* select_challenge_types returns exactly [MULTIPLE_CHOICE].
C13_SingleNodeChainGetsOnlyMultipleChoice ==
    (pc = "selected" /\ SingleNodeCall) => sel.types = <<"MULTIPLE_CHOICE">>

\* C13 amended: for a single-node chain [f] whose f calls nothing,
\* select_challenge_types returns exactly [MULTIPLE_CHOICE] when f has no
\* decorator, its complexity is at most 10 and the difficulty passed in is
\* below INTERMEDIATE, and a longer list otherwise; CODE_TRACING is never
\* selected.
C13_SinglePlainNodeGetsOnlyMultipleChoice ==
    (pc = "selected" /\ SingleNodeCall) =>
        /\ sel.types = <<"MULTIPLE_CHOICE">>
              <=> /\ OnlyNode.decorators = <<>>
                  /\ OnlyNode.complexity <= 10
                  /\ sel.difficulty < INTERMEDIATE
        /\ \A k \in 1..Len(sel.types) : sel.types[k] # "CODE_TRACING"

\* select_challenge_types returned [MULTIPLE_CHOICE] for a one-node chain
\* whose complexity is exactly 10
C13_Witness ==
    /\ pc = "selected"
    /\ SingleNodeCall
    /\ OnlyNode.complexity = 10
    /\ sel.types = <<"MULTIPLE_CHOICE">>

\* a call on a three-node chain whose nodes all have a decorator and whose
\* mean complexity is 12
DecoratedTripleCall ==
    /\ Len(sel.chain) = 3
    /\ \A i \in 1..3 : call_graph.nodes[sel.chain[i]].decorators # <<>>
    /\ SumSeq([i \in 1..3 |-> call_graph.nodes[sel.chain[i]].complexity]) = 3 * 12

\* C14: for a chain [a,b,c] in which every node has a decorator and the
\* mean complexity is 12, select_challenge_types returns a list holding
\* MULTIPLE_CHOICE, CODE_TRACING, FILL_BLANK and DEBUGGING, and for a
\* difficulty below INTERMEDIATE exactly these four.
C14_DecoratedTripleGetsFourTypes ==
    (pc = "selected" /\ DecoratedTripleCall) =>
        /\ {"MULTIPLE_CHOICE", "CODE_TRACING", "FILL_BLANK", "DEBUGGING"}
              \subseteq SeqElems(sel.types)
        /\ sel.difficulty < INTERMEDIATE =>
              /\ Len(sel.types) = 4
              /\ SeqElems(sel.types) =
                    {"MULTIPLE_CHOICE", "CODE_TRACING", "FILL_BLANK", "DEBUGGING"}

\* select_challenge_types was called with EXPERT on such a chain whose
\* nodes differ in complexity, so that the cut to five types applied
C14_Witness ==
    /\ pc = "selected"
    /\ DecoratedTripleCall
    /\ sel.difficulty = EXPERT
    /\ call_graph.nodes[sel.chain[1]].complexity
          # call_graph.nodes[sel.chain[2]].complexity
    /\ Len(sel.types) = 5

\* the difficulty score of the call times the chain length, from the
\* integer attributes of the nodes
ScoreTimesLen ==
    LET chain == sel.chain
        n == Len(chain)
        node(i) == call_graph.nodes[chain[i]]
        abstraction == SumSeq([i \in 1..n |->
                          3 * Len(node(i).decorators)
                          + (IF node(i).is_async THEN 5 ELSE 0)
                          + (IF node(i).is_generator THEN 5 ELSE 0)])
        deps == SumSeq([i \in 1..n |-> node(i).depends_on])
        complexity == SumSeq([i \in 1..n |-> node(i).complexity])
    IN n * (Min(20, 4 * n) + Min(25, abstraction) + Min(25, 2 * deps))
       + Min(30 * n, 2 * complexity)

\* C20: calculate_difficulty returns the tier of the score
\* min(20, 4*len) + min(30, 2*mean complexity) + min(25, abstraction)
\* + min(25, 2*dependencies): below 20 TUTORIAL, below 40 BASIC, below 60
\* INTERMEDIATE, below 80 ADVANCED, otherwise EXPERT, a score of exactly
\* 20, 40, 60 or 80 falling in the higher tier.
C20_TierOfScore ==
    pc = "classified" =>
        LET n == Len(sel.chain)
        IN /\ sel.tier = TUTORIAL <=> ScoreTimesLen < 20 * n
           /\ sel.tier = BASIC <=> (20 * n <= ScoreTimesLen /\ ScoreTimesLen < 40 * n)
           /\ sel.tier = INTERMEDIATE
                 <=> (40 * n <= ScoreTimesLen /\ ScoreTimesLen < 60 * n)
           /\ sel.tier = ADVANCED
                 <=> (60 * n <= ScoreTimesLen /\ ScoreTimesLen < 80 * n)
           /\ sel.tier = EXPERT <=> 80 * n <= ScoreTimesLen

\* calculate_difficulty returned ADVANCED for a chain whose score is
\* exactly 60
C20_Witness ==
    /\ pc = "classified"
    /\ ScoreTimesLen = 60 * Len(sel.chain)
    /\ sel.tier = ADVANCED

\* C19: for every chain of 1 to max_depth nodes each part of the importance
\* score stays within its budget (entry proximity 40, call frequency 30,
\* complexity 20, documentation 10), so the total never exceeds 100.
C19_ImportancePartsWithinBudget ==
    pc = "scored" =>
        /\ sel.importance.proximity <= 40 * Scale
        /\ sel.importance.frequency <= 30 * Scale
        /\ sel.importance.complexity <= 20 * Scale
        /\ sel.importance.documentation <= 10 * Scale
        /\ calculate_chain_importance(sel.chain, call_graph) <= 100 * Scale

\* the mean complexity of the chain of the call is above 10
CallIsComplex ==
    SumSeq([i \in 1..Len(sel.chain) |-> call_graph.nodes[sel.chain[i]].complexity])
        > 10 * Len(sel.chain)

\* C23 as stated: whenever the difficulty passed in is ADVANCED or EXPERT,
\* the list select_challenge_types returns contains ARCHITECTURE.
C23_AdvancedGetsArchitecture ==
    (pc = "selected" /\ sel.difficulty >= ADVANCED) =>
        "ARCHITECTURE" \in SeqElems(sel.types)

\* C23 amended: whenever the difficulty passed in is ADVANCED or EXPERT,
\* the returned list contains ARCHITECTURE unless the chain has at least 3
\* nodes and a mean complexity above 10; then the five earlier rules fill
\* the list and the cut to five drops ARCHITECTURE.  Below ADVANCED the
\* list never contains it.
C23_ArchitectureUnlessCutOff ==
    pc = "selected" =>
        ("ARCHITECTURE" \in SeqElems(sel.types)
            <=> /\ sel.difficulty >= ADVANCED
                /\ ~(Len(sel.chain) >= 3 /\ CallIsComplex))

\* ARCHITECTURE was returned as the fifth type, for ADVANCED
C23_Witness ==
    /\ pc = "selected"
    /\ sel.difficulty = ADVANCED
    /\ Len(sel.types) = 5
    /\ sel.types[5] = "ARCHITECTURE"

\* the order in which the rules of select_challenge_types add the types
RuleOrder ==
    <<"MULTIPLE_CHOICE", "CODE_TRACING", "FILL_BLANK", "CODE_COMPLETION",
      "DEBUGGING", "ARCHITECTURE">>

RulePosition(t) == CHOOSE i \in 1..Len(RuleOrder) : RuleOrder[i] = t

\* C26: the list returned by select_challenge_types is a subsequence of
\* the fixed rule order, MULTIPLE_CHOICE first, and a list that contains
\* CODE_COMPLETION or ARCHITECTURE also contains FILL_BLANK.
C26_TypesFollowRuleOrder ==
    pc = "selected" =>
        /\ sel.types # <<>>
        /\ sel.types[1] = "MULTIPLE_CHOICE"
        /\ \A k \in 1..Len(sel.types) : sel.types[k] \in SeqElems(RuleOrder)
        /\ \A k \in 1..(Len(sel.types) - 1) :
              RulePosition(sel.types[k]) < RulePosition(sel.types[k + 1])
        /\ ({"CODE_COMPLETION", "ARCHITECTURE"} \cap SeqElems(sel.types) # {}
               => "FILL_BLANK" \in SeqElems(sel.types))

\* a list with CODE_COMPLETION and ARCHITECTURE was returned for a chain
\* without any decorator
C26_Witness ==
    /\ pc = "selected"
    /\ {"CODE_COMPLETION", "ARCHITECTURE"} \subseteq SeqElems(sel.types)
    /\ \A i \in 1..Len(sel.chain) : call_graph.nodes[sel.chain[i]].decorators = <<>>

\* how often x occurs in the sequence s
Occurrences(x, s) == Cardinality({i \in 1..Len(s) : s[i] = x})

\* the correct answer of the multiple-choice challenge of the call
CorrectOption == sel.challenge.mc.answer[1]

----------------------------------------------------------------------------
(* Frontend.  One mounted component, or the ApiClient object, is the record *)
(* ui; the level generation engine is not running meanwhile.                *)

engine == <<call_graph, max_levels, pc, core_chains, levels, outcome,
            run, first_levels, stack, pending, chains, sel>>

EngineIdle ==
    /\ call_graph = <<>>
    /\ max_levels = 0
    /\ pc = "idle"
    /\ core_chains = <<>>
    /\ levels = <<>>
    /\ outcome = "running"
    /\ run = 1
    /\ first_levels = <<>>
    /\ stack = <<>>
    /\ pending = <<>>
    /\ chains = <<>>
    /\ sel = <<>>

\* JavaScript null / undefined
Null == "null"

----------------------------------------------------------------------------
(* components/pages/CreateProject.tsx *)

\* largest number of progress requests one page issues
MaxPolls == 3

\* what the two text inputs of the form can hold; language is never edited
FormValues ==
    [githubUrl : {"", "https://github.com/o/r"}, name : {"", "repo"},
     language : {"python"}]

\* what one progress request can come to: HTTP 200 with data.status
\* "analyzing", "completed" or "failed", a non-OK HTTP status, or fetch /
\* response.json() throwing
PollOutcomes == {"analyzing", "completed", "failed", "not_ok", "threw"}

isLoading(u) == u.createMutation = "pending" \/ u.isPolling

\* poll(): the request goes out
poll(u) == [u EXCEPT !.poll = "inflight", !.polls = @ + 1]

startPolling(u) == poll([u EXCEPT !.isPolling = TRUE])

\* the rest of poll() once the request has settled
PollSettled(u, result) ==
    IF result = "threw" THEN [u EXCEPT !.poll = "timer_3000"]
    ELSE IF result = "not_ok" THEN [u EXCEPT !.poll = "none"]
    ELSE IF result = "completed"
        THEN [u EXCEPT !.progress = result, !.isPolling = FALSE,
                       !.poll = "none", !.navigate = "timer_1500"]
    ELSE IF result = "failed"
        THEN [u EXCEPT !.progress = result, !.isPolling = FALSE,
                       !.poll = "none", !.error = "Analysis failed"]
    ELSE [u EXCEPT !.progress = result, !.poll = "timer_2000"]

InitCreateProject ==
    /\ ui = [form |-> [githubUrl |-> "", name |-> "", language |-> "python"],
             error |-> "", projectId |-> Null, progress |-> Null,
             isPolling |-> FALSE, createMutation |-> "idle", poll |-> "none",
             navigate |-> "none", polls |-> 0]
    /\ EngineIdle

\* the user edits the form, which is rendered while there is no projectId
EditForm ==
    /\ ui.projectId = Null
    /\ \E form \in FormValues : ui' = [ui EXCEPT !.form = form]
    /\ ui' # ui
    /\ UNCHANGED engine

\* handleSubmit, reached through the submit button (disabled while isLoading)
handleSubmit ==
    /\ ui.projectId = Null
    /\ ~isLoading(ui)
    /\ ui' = IF ui.form.githubUrl = ""
                 THEN [ui EXCEPT !.error = "Please enter a GitHub URL"]
             ELSE IF ui.form.name = ""
                 THEN [ui EXCEPT !.error = "Please enter a project name"]
             ELSE [ui EXCEPT !.error = "", !.createMutation = "pending"]
    /\ UNCHANGED engine

\* createMutation settles: onSuccess stores the id and starts polling,
\* onError shows the message
CreateSettles ==
    /\ ui.createMutation = "pending"
    /\ \E ok \in BOOLEAN :
          ui' = IF ok
                    THEN startPolling([ui EXCEPT !.createMutation = "success",
                                                 !.projectId = "p1"])
                    ELSE [ui EXCEPT !.createMutation = "error",
                                    !.error = "Failed to create project"]
    /\ UNCHANGED engine

\* the progress request in flight settles
PollSettles ==
    /\ ui.poll = "inflight"
    /\ \E result \in PollOutcomes : ui' = PollSettled(ui, result)
    /\ UNCHANGED engine

\* a setTimeout(poll, ...) timer fires
PollTimerFires ==
    /\ ui.poll \in {"timer_2000", "timer_3000"}
    /\ ui.polls < MaxPolls
    /\ ui' = poll(ui)
    /\ UNCHANGED engine

\* the setTimeout(() => navigate(...), 1500) timer fires
NavigateTimerFires ==
    /\ ui.navigate = "timer_1500"
    /\ ui' = [ui EXCEPT !.navigate = "done"]
    /\ UNCHANGED engine

NextCreateProject ==
    \/ EditForm
    \/ handleSubmit
    \/ CreateSettles
    \/ PollSettles
    \/ PollTimerFires
    \/ NavigateTimerFires

SpecCreateProject == InitCreateProject /\ [][NextCreateProject]_vars

\* C27: in the CreateProject page, while isPolling is true a progress request
\* is in flight or a poll is scheduled by timer (every outcome other than
\* status completed or failed, a non-OK HTTP response and a thrown error
\* included, schedules another poll), and once completed or failed has been
\* observed isPolling is false and no poll is in flight or scheduled.
C27_PollingNeverStalls ==
    /\ ui.isPolling => ui.poll \in {"inflight", "timer_2000", "timer_3000"}
    /\ ui.progress \in {"completed", "failed"} =>
          ~ui.isPolling /\ ui.poll = "none"

----------------------------------------------------------------------------
(* components/pages/LevelView.tsx, mounted with the level loaded.  The      *)
(* challenges of the level are numbered 0..n-1 and answers is keyed by that *)
(* number, challenge ids being unique.                                      *)

\* largest number of challenges of the level
MaxChallenges == 3

\* what handleAnswer can record: '' is a text input emptied again
AnswerValues == {"", "A", "B"}

isLastChallenge(u) == u.currentChallenge = u.n - 1

\* level.challenges.every(c => answers[c.id]): undefined and '' are falsy
allAnswered(u) == \A i \in 0..(u.n - 1) : u.answers[i] \notin {Null, ""}

isPending(u) == u.submitMutation = "pending"

SubmitButtonEnabledWhilePending(u) ==
    /\ u.result = Null
    /\ isLastChallenge(u)
    /\ allAnswered(u)

\* the submit button is rendered on the form, in place of Next on the last
\* challenge, and is not disabled
SubmitButtonEnabled(u) ==
    /\ u.result = Null
    /\ isLastChallenge(u)
    /\ allAnswered(u)
    /\ ~isPending(u)

handleAnswer(u, answer) == [u EXCEPT !.answers[u.currentChallenge] = answer]

handleNextUnguarded(u) ==
    [u EXCEPT !.currentChallenge = @ + 1, !.showHint = FALSE]

handleNext(u) ==
    IF u.currentChallenge < u.n - 1
        THEN [u EXCEPT !.currentChallenge = @ + 1, !.showHint = FALSE]
        ELSE u

handlePrev(u) ==
    IF u.currentChallenge > 0
        THEN [u EXCEPT !.currentChallenge = @ - 1, !.showHint = FALSE]
        ELSE u

\* handleSubmit up to the await: the request goes out with the answers
SubmitSent(u) ==
    [u EXCEPT !.submitMutation = "pending", !.inflight = @ + 1,
              !.sent = u.answers]

\* handleSubmit after the await: setResult on success, console.error on failure
SubmitSettled(u, ok) ==
    IF ok
        THEN [u EXCEPT !.inflight = @ - 1, !.submitMutation = "success",
                       !.result = "result"]
        ELSE [u EXCEPT !.inflight = @ - 1, !.submitMutation = "error"]

InitLevelView ==
    /\ ui \in {[n |-> n, answers |-> [i \in 0..(n - 1) |-> Null],
                currentChallenge |-> 0, showHint |-> FALSE, result |-> Null,
                submitMutation |-> "idle", inflight |-> 0, sent |-> <<>>,
                last |-> "mount"] : n \in 1..MaxChallenges}
    /\ EngineIdle

\* an option button or a text input of the challenge shown
Answer ==
    /\ ui.result = Null
    /\ \E answer \in AnswerValues :
          ui' = [handleAnswer(ui, answer) EXCEPT !.last = "answer"]
    /\ UNCHANGED engine

\* handleNext is called
CallHandleNext ==
    /\ ui.result = Null
    /\ ui' = [handleNext(ui) EXCEPT !.last = "next"]
    /\ UNCHANGED engine

\* handlePrev is called
CallHandlePrev ==
    /\ ui.result = Null
    /\ ui' = [handlePrev(ui) EXCEPT !.last = "prev"]
    /\ UNCHANGED engine

\* one of the numbered challenge buttons: setCurrentChallenge(i)
ClickChallenge ==
    /\ ui.result = Null
    /\ \E i \in 0..(ui.n - 1) :
          ui' = [ui EXCEPT !.currentChallenge = i, !.last = "jump"]
    /\ UNCHANGED engine

\* "Need a hint?": setShowHint(true)
ClickHint ==
    /\ ui.result = Null
    /\ ~ui.showHint
    /\ ui' = [ui EXCEPT !.showHint = TRUE, !.last = "hint"]
    /\ UNCHANGED engine

\* the submit button is clicked
ClickSubmit ==
    /\ SubmitButtonEnabled(ui)
    /\ ui' = [SubmitSent(ui) EXCEPT !.last = "submit"]
    /\ UNCHANGED engine

\* a submission in flight settles
SubmitSettles ==
    /\ ui.inflight > 0
    /\ \E ok \in BOOLEAN :
          ui' = [SubmitSettled(ui, ok) EXCEPT
                    !.last = IF ok THEN "submit_ok" ELSE "submit_failed"]
    /\ UNCHANGED engine

NextLevelView ==
    \/ Answer
    \/ CallHandleNext
    \/ CallHandlePrev
    \/ ClickChallenge
    \/ ClickHint
    \/ ClickSubmit
    \/ SubmitSettles

SpecLevelView == InitLevelView /\ [][NextLevelView]_vars

C29_IndexStaysInRange ==
    /\ [](ui.currentChallenge \in 0..(ui.n - 1))
    /\ [][/\ ui'.last = "next" /\ ui.currentChallenge = ui.n - 1 =>
                ui'.currentChallenge = ui.currentChallenge
          /\ ui'.last = "prev" /\ ui.currentChallenge = 0 =>
                ui'.currentChallenge = ui.currentChallenge
          /\ ui'.currentChallenge # ui.currentChallenge /\ ui'.last # "jump" =>
                ~ui'.showHint
          /\ ui'.last = "jump" => ui'.showHint = ui.showHint]_vars

\* Previous was called at index 0 with the hint shown and changed nothing
C29_Witness ==
    /\ ui.last = "prev"
    /\ ui.currentChallenge = 0
    /\ ui.showHint

----------------------------------------------------------------------------
(* ApiClient of the TypeScript API client, running in a browser (window and *)
(* localStorage exist)                                                      *)

\* largest number of requests in flight at once
MaxInFlight == 2

\* token strings a caller or a login response can supply
Tokens == {"", "jwt1", "jwt2"}

\* !!this.token: null and '' are falsy
isAuthenticated(u) == u.token \notin {Null, ""}

setTokenMemoryOnly(u, token) == [u EXCEPT !.token = token]

setToken(u, token) == [u EXCEPT !.token = token, !.access_token = token]

clearToken(u) == [u EXCEPT !.token = Null, !.access_token = Null]

logout(u) == clearToken(u)

\* request(endpoint) up to the await of fetch: the Authorization header is
\* built from this.token when it is truthy
request(u, endpoint) ==
    [u EXCEPT !.requests = @ \cup
        {[endpoint |-> endpoint,
          authorization |-> IF isAuthenticated(u) THEN u.token ELSE Null]}]

\* the constructor reads the stored token
InitApiClient ==
    /\ ui \in {[token |-> stored, access_token |-> stored, requests |-> {},
                last |-> "constructed"] : stored \in {Null} \cup Tokens}
    /\ EngineIdle

\* login(email, password) or getCurrentUser() is called
CallRequest ==
    /\ Cardinality(ui.requests) < MaxInFlight
    /\ \E endpoint \in {"/auth/login", "/auth/me"} :
          /\ ui' = [request(ui, endpoint) EXCEPT !.last = "request"]
          /\ ui'.requests # ui.requests
    /\ UNCHANGED engine

\* a login request settles: with response.ok login stores access_token,
\* otherwise request throws and login stores nothing
LoginSettles ==
    /\ \E r \in ui.requests, ok \in BOOLEAN, access_token \in Tokens :
          /\ r.endpoint = "/auth/login"
          /\ ui' = IF ok
                       THEN [setToken(ui, access_token) EXCEPT
                                !.requests = @ \ {r}, !.last = "login_ok"]
                       ELSE [ui EXCEPT !.requests = @ \ {r},
                                       !.last = "login_failed"]
    /\ UNCHANGED engine

\* a getCurrentUser request settles, either way
RequestSettles ==
    /\ \E r \in ui.requests :
          /\ r.endpoint = "/auth/me"
          /\ ui' = [ui EXCEPT !.requests = @ \ {r}, !.last = "settled"]
    /\ UNCHANGED engine

CallLogout ==
    /\ ui' = [logout(ui) EXCEPT !.last = "logout"]
    /\ UNCHANGED engine

CallSetToken ==
    /\ \E token \in Tokens : ui' = [setToken(ui, token) EXCEPT !.last = "setToken"]
    /\ UNCHANGED engine

CallClearToken ==
    /\ ui' = [clearToken(ui) EXCEPT !.last = "clearToken"]
    /\ UNCHANGED engine

NextApiClient ==
    \/ CallRequest
    \/ LoginSettles
    \/ RequestSettles
    \/ CallLogout
    \/ CallSetToken
    \/ CallClearToken

SpecApiClient == InitApiClient /\ [][NextApiClient]_vars

\* C30: after any sequence of ApiClient login, logout, setToken and
\* clearToken calls the in-memory token equals the value stored under the
\* localStorage key access_token (both absent after logout), and
\* isAuthenticated() is true exactly when a (non-empty) token is held; a login
\* whose request fails changes neither the in-memory token nor localStorage.
C30_TokenMirrorsStorage ==
    /\ [](/\ ui.token = ui.access_token
          /\ isAuthenticated(ui) <=> ui.access_token \in Tokens \ {""}
          /\ ui.last \in {"logout", "clearToken"} =>
                ui.token = Null /\ ui.access_token = Null)
    /\ [][ui'.last = "login_failed" =>
              ui'.token = ui.token /\ ui'.access_token = ui.access_token]_vars

\* a login failed while a token was held, and the token is still there
C30_Witness ==
    /\ ui.last = "login_failed"
    /\ ui.token = "jwt1"
    /\ ui.access_token = "jwt1"

====
